---- MODULE Spec2Model ----
(***************************************************************************)
(* A model of cloudvolume/mesh.py: the Mesh entity, its equality, the      *)
(* precomputed binary codec and the topology operations clone,             *)
(* concatenate, consolidate and deduplicate_chunk_boundaries.              *)
(*                                                                         *)
(* Representation.                                                         *)
(*  - A float32 is held as its IEEE-754 bit pattern (an integer), a uint32 *)
(*    as its value; both are one 4-byte little-endian word in a buffer.    *)
(*    The model's words are below 2^31: floats are non-negative and are    *)
(*    never NaN, so the order and the equality of two floats are those of  *)
(*    their bit patterns, and no uint32 addition wraps.                    *)
(*  - An ndarray is [ndim, rows]: np.array([]) has shape (0,) (ndim 1),    *)
(*    every other array of the model has shape (n,3) (ndim 2).             *)
(*  - A Mesh object holds references: its three buffers are addresses in   *)
(*    bufs, its encoding_options an address in opts (0 is None).           *)
(*    encoding_type is held by value: <<"one", {t}>> is the tag t ("None"  *)
(*    when unset) and <<"many", S>> the list concatenate makes of several. *)
(***************************************************************************)
EXTENDS Integers, Sequences, FiniteSets, TLC

VARIABLES
  bufs,   \* the ndarray objects, by address
  opts,   \* the encoding_options objects, by address
  pool,   \* the Mesh objects made so far, each with the call that made it
  wire,   \* the byte buffer last produced by to_precomputed or prepared for from_precomputed
  last,   \* the last call: its name, arguments, error and result
  writes  \* the in-place writes callers have made

vars == <<bufs, opts, pool, wire, last, writes>>

----------------------------------------------------------------------------
(* Bounds of the model.                                                    *)

MaxVerts == 4      \* vertex rows of a mesh handed to the topology operations
MaxFaces == 2      \* face rows handed to the constructor in one run
MaxPool == 3       \* meshes alive in one run of Spec
PairVerts == 2     \* vertex rows handed to the constructor in one run of SpecConcat
ConcatPool == 4    \* meshes alive in one run of SpecConcat
MaxK == 2          \* meshes handed to one concatenate call
CodecVerts == 2    \* vertex rows of a mesh handed to to_precomputed
EqVerts == 3       \* vertex rows handed to the constructor in one run of SpecEq
AliasVerts == 2    \* vertex rows handed to the constructor in one run of SpecAlias
MaxHeader == 3     \* the largest vertex count written over a buffer's header
MaxWrites == 1     \* in-place writes by callers in one run
ValidVerts == 2    \* vertex rows of a mesh handed to the constructor in SpecValid
ValidPool == 4     \* meshes alive in one run of SpecValid

----------------------------------------------------------------------------
(* Words: float32 bit patterns and uint32 values.                          *)

RECURSIVE Pow2(_)
Pow2(k) == IF k = 0 THEN 1 ELSE 2 * Pow2(k - 1)

RECURSIVE Log2Floor(_)
Log2Floor(n) == IF n < 2 THEN 0 ELSE 1 + Log2Floor(n \div 2)

\* np.float32(n) for an integer 0 <= n < 2^24: sign 0, biased exponent, 23-bit fraction.
F32(n) ==
  IF n = 0 THEN 0
  ELSE LET e == Log2Floor(n)
       IN  (e + 127) * Pow2(23) + (n - Pow2(e)) * Pow2(23 - e)

F32Exp(b) == b \div Pow2(23)
F32Sig(b) == Pow2(23) + (b % Pow2(23))

\* The float is an integer below 2^24 (zero, or a normal number whose fraction
\* has no bit below the units).
F32IsInt(b) ==
  \/ b = 0
  \/ /\ F32Exp(b) >= 127
     /\ F32Exp(b) <= 150
     /\ F32Sig(b) % Pow2(150 - F32Exp(b)) = 0

F32ToInt(b) == IF b = 0 THEN 0 ELSE F32Sig(b) \div Pow2(150 - F32Exp(b))

RECURSIVE Pow2Mod(_, _)
Pow2Mod(k, c) == IF k = 0 THEN 1 % c ELSE (2 * Pow2Mod(k - 1, c)) % c

\* np.mod(v, c) == 0 for a float32 v >= 0 and an integer c > 0: v is an exact
\* multiple of c. A subnormal or a fraction is none; inf gives nan.
F32IsMultiple(b, c) ==
  IF b = 0 THEN TRUE
  ELSE IF F32Exp(b) = 0 \/ F32Exp(b) = 255 THEN FALSE
  ELSE IF F32Exp(b) >= 150
    THEN ((F32Sig(b) % c) * Pow2Mod(F32Exp(b) - 150, c)) % c = 0
  ELSE IF F32Exp(b) < 127 THEN FALSE
  ELSE F32IsInt(b) /\ F32ToInt(b) % c = 0

\* One word as 4 bytes, little-endian (ndarray.tobytes, struct "=I"), and back.
WordBytes(w) ==
  << w % 256, (w \div 256) % 256, (w \div 65536) % 256, (w \div 16777216) % 256 >>

BytesWord(b, off) ==
  b[off + 1] + 256 * b[off + 2] + 65536 * b[off + 3] + 16777216 * b[off + 4]

----------------------------------------------------------------------------
(* Arrays.                                                                 *)

Arr1 == [ndim |-> 1, rows |-> << >>]
Arr2(rows) == [ndim |-> 2, rows |-> rows]

\* np.array(x, dtype=...) of a nested list: an empty list has shape (0,).
AsArray(list) == IF list = << >> THEN Arr1 ELSE Arr2(list)

Shape0(a) == Len(a.rows)
Size(a) == 3 * Len(a.rows)

Range(s) == { s[i] : i \in 1..Len(s) }

RECURSIVE Flatten(_)
Flatten(ss) == IF ss = << >> THEN << >> ELSE Head(ss) \o Flatten(Tail(ss))

\* Lexicographic order of two rows of the same width.
RECURSIVE RowLess(_, _)
RowLess(r, s) ==
  IF r = << >> THEN FALSE
  ELSE IF Head(r) # Head(s) THEN Head(r) < Head(s)
  ELSE RowLess(Tail(r), Tail(s))

RECURSIVE SortRows(_)
SortRows(S) ==
  IF S = {} THEN << >>
  ELSE LET m == CHOOSE x \in S : \A y \in S : ~RowLess(y, x)
       IN  <<m>> \o SortRows(S \ {m})

\* np.unique(rows, axis=0): the distinct rows, sorted.
Unique(rows) == SortRows(Range(rows))

\* return_inverse: for each row its (0-based) index in the unique rows.
IndexOf(u, r) == (CHOOSE k \in 1..Len(u) : u[k] = r) - 1
Inverse(rows) == LET u == Unique(rows) IN [i \in 1..Len(rows) |-> IndexOf(u, rows[i])]

\* return_counts, read per input row: how often the row occurs in rows.
CountOf(rows, r) == Cardinality({ i \in 1..Len(rows) : rows[i] = r })

----------------------------------------------------------------------------
(* Mesh values: what a Mesh object's fields hold.                          *)

NoNormals == Arr2(<< >>)            \* np.array([], float32).reshape((0,3))
NoSegid == 0                        \* segid None
NoOptions == << >>                  \* encoding_options None
One(t) == <<"one", {t}>>
NoType == One("None")               \* encoding_type None

\* Mesh.__init__: the arrays are coerced (here: already words), normals None
\* becomes the empty (0,3) array, the rest is stored as given.
Mesh(vertices, faces, normals, segid, encoding_type, encoding_options) ==
  [ vertices |-> vertices, faces |-> faces, normals |-> normals,
    segid |-> segid, encoding_type |-> encoding_type,
    encoding_options |-> encoding_options ]

NoMesh == Mesh(Arr1, Arr1, NoNormals, NoSegid, NoType, NoOptions)

Ok(m) == [err |-> "none", mesh |-> m]
Raise(e) == [err |-> e, mesh |-> NoMesh]

\* Mesh.__len__
MeshLen(m) == Shape0(m.vertices)

\* Mesh.empty
Empty(m) == Size(m.vertices) = 0 \/ Size(m.faces) = 0

\* Every face id indexes a vertex row (what indexing by a face id needs).
ValidIds(m) ==
  \A i \in 1..Len(m.faces.rows) : \A j \in 1..3 : m.faces.rows[i][j] < MeshLen(m)

\* Mesh.triangles: per face the coordinates of its three vertices.
Triangles(m) ==
  [ i \in 1..Len(m.faces.rows) |->
      [ j \in 1..3 |-> m.vertices.rows[m.faces.rows[i][j] + 1] ] ]

\* Mesh.clone: copies of the buffers and of the metadata, the same values.
Clone(m) ==
  Ok(Mesh(m.vertices, m.faces, m.normals, m.segid, m.encoding_type, m.encoding_options))

\* np.all(x == y) of two arrays. Shapes (n,3) and (m,3) broadcast when n = m or
\* one of them is 1; (0,) broadcasts with (0,) only. Shapes that do not
\* broadcast compare False (numpy's "elementwise comparison failed").
AllEqual(x, y) ==
  IF x.ndim # y.ndim THEN FALSE
  ELSE IF Len(x.rows) = Len(y.rows) THEN x.rows = y.rows
  ELSE IF Len(x.rows) = 1 THEN \A i \in 1..Len(y.rows) : y.rows[i] = x.rows[1]
  ELSE IF Len(y.rows) = 1 THEN \A i \in 1..Len(x.rows) : x.rows[i] = y.rows[1]
  ELSE FALSE

\* Mesh.__eq__
MeshEq(self, other) ==
  LET no_self_normals == Size(self.normals) = 0
      no_other_normals == Size(other.normals) = 0
      equality == AllEqual(self.vertices, other.vertices)
                    /\ AllEqual(self.faces, other.faces)
  IN  IF no_self_normals # no_other_normals THEN FALSE
      ELSE IF no_self_normals THEN equality
      ELSE equality /\ AllEqual(self.normals, other.normals)

----------------------------------------------------------------------------
(* Topology operations, on mesh values.                                    *)

RECURSIVE SumLen(_, _)
\* vertex_ct[i]: the vertex count of the first i meshes.
SumLen(meshes, i) == IF i = 0 THEN 0 ELSE SumLen(meshes, i - 1) + MeshLen(meshes[i])

ShiftRows(rows, by) == [ i \in 1..Len(rows) |-> [ j \in 1..3 |-> rows[i][j] + by ] ]

SameNdim(arrs) == \A i, j \in 1..Len(arrs) : arrs[i].ndim = arrs[j].ndim

\* np.concatenate of arrays of one ndim
ConcatArrays(arrs) ==
  [ ndim |-> arrs[1].ndim, rows |-> Flatten([ i \in 1..Len(arrs) |-> arrs[i].rows ]) ]

\* list(set(encoding types)), collapsed to the tag when there is one
ConcatType(meshes) ==
  LET tags == UNION { meshes[i].encoding_type[2] : i \in 1..Len(meshes) }
  IN  IF Cardinality(tags) = 1 THEN <<"one", tags>> ELSE <<"many", tags>>

\* concatenate with each mesh's faces raised by the count that includes its own
\* vertices (a bug: the cumulative sum without its leading zero)
ConcatenateOwnCount(meshes) ==
  LET n == Len(meshes)
      vs == [ i \in 1..n |-> meshes[i].vertices ]
      fs == [ i \in 1..n |->
                [ ndim |-> meshes[i].faces.ndim,
                  rows |-> ShiftRows(meshes[i].faces.rows, SumLen(meshes, i)) ] ]
      ns == [ i \in 1..n |-> meshes[i].normals ]
  IN  IF ~SameNdim(vs) \/ ~SameNdim(fs) \/ ~SameNdim(ns) THEN Raise("ValueError")
      ELSE IF \E i \in 1..n : meshes[i].encoding_type[1] = "many"
        THEN Raise("TypeError")
      ELSE Ok(Mesh(ConcatArrays(vs), ConcatArrays(fs), ConcatArrays(ns),
                   NoSegid, ConcatType(meshes), NoOptions))

\* Mesh.concatenate(*meshes), for at least one mesh
Concatenate(meshes) ==
  LET n == Len(meshes)
      vs == [ i \in 1..n |-> meshes[i].vertices ]
      fs == [ i \in 1..n |->
                [ ndim |-> meshes[i].faces.ndim,
                  rows |-> ShiftRows(meshes[i].faces.rows, SumLen(meshes, i - 1)) ] ]
      ns == [ i \in 1..n |-> meshes[i].normals ]
  IN  IF ~SameNdim(vs) \/ ~SameNdim(fs) \/ ~SameNdim(ns) THEN Raise("ValueError")
      ELSE IF \E i \in 1..n : meshes[i].encoding_type[1] = "many"
        THEN Raise("TypeError")     \* set() of a list: unhashable
      ELSE Ok(Mesh(ConcatArrays(vs), ConcatArrays(fs), ConcatArrays(ns),
                   NoSegid, ConcatType(meshes), NoOptions))

\* consolidate with the faces left unmapped (a bug: the remapping forgotten)
ConsolidateNoRemap(m) ==
  IF Empty(m) THEN Ok(Mesh(AsArray(<< >>), AsArray(<< >>), NoNormals, NoSegid, NoType, NoOptions))
  ELSE IF ~ValidIds(m) THEN Raise("IndexError")
  ELSE Ok(Mesh(Arr2(Unique(m.vertices.rows)), Arr2(Unique(m.faces.rows)), NoNormals,
               m.segid, m.encoding_type, m.encoding_options))

\* consolidate with the remapped faces left as they are (a bug: the second
\* np.unique forgotten)
ConsolidateKeepFaces(m) ==
  IF Empty(m) THEN Ok(Mesh(AsArray(<< >>), AsArray(<< >>), NoNormals, NoSegid, NoType, NoOptions))
  ELSE IF ~ValidIds(m) THEN Raise("IndexError")
  ELSE
    LET idx_representative == Inverse(m.vertices.rows)
        mapped == [ i \in 1..Len(m.faces.rows) |->
                      [ j \in 1..3 |-> idx_representative[m.faces.rows[i][j] + 1] ] ]
    IN  Ok(Mesh(Arr2(Unique(m.vertices.rows)), Arr2(mapped), NoNormals,
                m.segid, m.encoding_type, m.encoding_options))

\* Mesh.consolidate
Consolidate(m) ==
  IF Empty(m) THEN Ok(Mesh(AsArray(<< >>), AsArray(<< >>), NoNormals, NoSegid, NoType, NoOptions))
  ELSE IF ~ValidIds(m) THEN Raise("IndexError")
  ELSE
    LET vertices == m.vertices.rows
        faces == m.faces.rows
        eff_verts == Unique(vertices)
        idx_representative == Inverse(vertices)
        mapped == [ i \in 1..Len(faces) |->
                      [ j \in 1..3 |-> idx_representative[faces[i][j] + 1] ] ]
        eff_faces == Unique(mapped)
    IN  Ok(Mesh(Arr2(eff_verts), Arr2(eff_faces), NoNormals,
                m.segid, m.encoding_type, m.encoding_options))

Min(a, b) == IF a < b THEN a ELSE b

\* dist_to_chunk, on an integer coordinate
DistToChunk(v, chunk_size) ==
  LET plus_one_dist == v % chunk_size
      minus_one_dist == chunk_size - plus_one_dist
  IN  Min(plus_one_dist, minus_one_dist)

\* is_draco_chunk_aligned for one vertex row whose coordinates are integers
IsDracoChunkAligned(row, chunk_size, draco_grid_size) ==
  \E j \in 1..3 :
    LET v == F32ToInt(row[j])
        d_me == DistToChunk(v, chunk_size)
        d_up == DistToChunk(v + draco_grid_size, chunk_size)
        d_down == DistToChunk(v - draco_grid_size, chunk_size)
    IN  d_me < d_down /\ d_me < d_up /\ d_me < draco_grid_size

\* np.any(np.mod(vertices, chunk_size) == 0, axis=1) for one vertex row
IsChunkAligned(row, chunk_size) == \E j \in 1..3 : F32IsMultiple(row[j], chunk_size)

\* do_merge with counts >= 2 (a bug: every duplicated row merged)
DoMergeDuplicates(verts, i, chunk_size, is_draco, draco_grid_size) ==
  /\ CountOf(verts, verts[i]) >= 2
  /\ IF is_draco THEN IsDracoChunkAligned(verts[i], chunk_size, draco_grid_size)
                 ELSE IsChunkAligned(verts[i], chunk_size)

\* do_merge[i]: the vertex is chunk aligned and its row occurs exactly twice
DoMerge(verts, i, chunk_size, is_draco, draco_grid_size) ==
  /\ CountOf(verts, verts[i]) = 2
  /\ IF is_draco THEN IsDracoChunkAligned(verts[i], chunk_size, draco_grid_size)
                 ELSE IsChunkAligned(verts[i], chunk_size)

\* new_vertices: each row with a 4th coordinate, its own index or -1 when merged
NewVertices(verts, chunk_size, is_draco, draco_grid_size) ==
  [ i \in 1..Len(verts) |->
      Append(verts[i],
             IF DoMerge(verts, i, chunk_size, is_draco, draco_grid_size) THEN -1 ELSE i - 1) ]

\* Mesh.deduplicate_chunk_boundaries
DeduplicateChunkBoundaries(m, chunk_size, is_draco, draco_grid_size) ==
  IF m.vertices.ndim = 1 THEN Raise("AxisError")     \* np.any(..., axis=1) of a 1-d array
  ELSE IF ~ValidIds(m) THEN Raise("IndexError")      \* new_vertices[faces]
  ELSE
    LET new_vertices == NewVertices(m.vertices.rows, chunk_size, is_draco, draco_grid_size)
        faces == Flatten(m.faces.rows)
        expanded == [ k \in 1..Len(faces) |-> new_vertices[faces[k] + 1] ]
        vertices == Unique(expanded)
        inverse == Inverse(expanded)
        newfaces == [ i \in 1..(Len(faces) \div 3) |->
                        << inverse[3 * i - 2], inverse[3 * i - 1], inverse[3 * i] >> ]
    IN  Ok(Mesh(Arr2([ k \in 1..Len(vertices) |-> SubSeq(vertices[k], 1, 3) ]),
                Arr2(newfaces), NoNormals,
                m.segid, m.encoding_type, m.encoding_options))

----------------------------------------------------------------------------
(* The precomputed codec.                                                  *)

ArrayBytes(a) == Flatten([ i \in 1..Len(a.rows) |->
                   Flatten([ j \in 1..3 |-> WordBytes(a.rows[i][j]) ]) ])

\* Mesh.to_precomputed: the vertex count, the vertex buffer, the face buffer
ToPrecomputed(m) ==
  WordBytes(Shape0(m.vertices)) \o ArrayBytes(m.vertices) \o ArrayBytes(m.faces)

\* the rows read in column-major order (a bug: the buffer taken as Fortran-ordered)
RowsAtColumnMajor(binary, off, n) ==
  [ i \in 1..n |-> [ j \in 1..3 |-> BytesWord(binary, off + 4 * ((j - 1) * n + (i - 1))) ] ]

\* np.frombuffer(...).reshape(n, 3): n rows of three words from byte offset off
RowsAt(binary, off, n) ==
  [ i \in 1..n |-> [ j \in 1..3 |-> BytesWord(binary, off + 12 * (i - 1) + 4 * (j - 1)) ] ]

Decoded(err, m, min_bytes, actual_bytes) ==
  [err |-> err, mesh |-> m, min_bytes |-> min_bytes, actual_bytes |-> actual_bytes]

\* The size the error message of from_precomputed names as the minimum.
MinimumBytes(num_vertices) == 4 + 4 * num_vertices

\* Mesh.from_precomputed
FromPrecomputed(binary) ==
  IF Len(binary) < 4 THEN Decoded("struct.error", NoMesh, 0, 0)   \* struct.unpack("=I", ...)
  ELSE
    LET num_vertices == BytesWord(binary, 0)
        rest == Len(binary) - 4
        \* np.frombuffer raises ValueError: too few bytes for count=3*num_vertices,
        \* or the bytes left for the faces are no whole number of uint32
        too_small == rest \div 12 < num_vertices
        ragged == ~too_small /\ (rest - 12 * num_vertices) % 4 # 0
        nwords == (rest - 12 * num_vertices) \div 4
    IN  IF too_small \/ ragged
          THEN Decoded("MeshDecodeError", NoMesh, MinimumBytes(num_vertices), Len(binary))
        ELSE IF nwords % 3 # 0
          THEN Decoded("ValueError", NoMesh, 0, 0)     \* faces.reshape(size // 3, 3)
        ELSE Decoded("none",
                     Mesh(Arr2(RowsAt(binary, 4, num_vertices)),
                          Arr2(RowsAt(binary, 4 + 12 * num_vertices, nwords \div 3)),
                          NoNormals, NoSegid, One("precomputed"), NoOptions),
                     0, 0)

----------------------------------------------------------------------------
(* Objects: meshes in the pool refer to buffers and options by address.    *)

\* The values a pool entry's fields hold, read through heaps b and o.
ValIn(b, o, p) ==
  Mesh(b[p.vertices], b[p.faces], b[p.normals], p.segid, p.encoding_type,
       IF p.encoding_options = 0 THEN NoOptions ELSE o[p.encoding_options])

Val(i) == ValIn(bufs, opts, pool[i])

Origin(op, args, chunk_size, is_draco) ==
  [op |-> op, args |-> args, chunk_size |-> chunk_size, is_draco |-> is_draco]

Call(op, args, err, out) ==
  [op |-> op, args |-> args, err |-> err, out |-> out, eq |-> FALSE,
   min_bytes |-> 0, actual_bytes |-> 0]

\* A new Mesh object holding m: Mesh.__init__ copies the three arrays into
\* buffers of its own (np.array) and stores encoding_options as handed over:
\* shared = 0 when the caller hands over an object of its own (a deepcopy, a new
\* object or None), else the address of the object handed over.
NewMesh(m, shared, origin) ==
  LET own == shared = 0 /\ m.encoding_options # NoOptions
      ref == IF shared # 0 THEN shared ELSE IF own THEN Len(opts) + 1 ELSE 0
  IN  /\ bufs' = bufs \o << m.vertices, m.faces, m.normals >>
      /\ opts' = IF own THEN Append(opts, m.encoding_options) ELSE opts
      /\ pool' = Append(pool,
           [ vertices |-> Len(bufs) + 1, faces |-> Len(bufs) + 2, normals |-> Len(bufs) + 3,
             segid |-> m.segid, encoding_type |-> m.encoding_type,
             encoding_options |-> ref, origin |-> origin ])

\* The outcome of a call that makes a mesh: the mesh joins the pool, or the
\* error is all there is.
Returns(res, shared, op, args, chunk_size, is_draco) ==
  IF res.err = "none"
    THEN /\ NewMesh(res.mesh, shared, Origin(op, args, chunk_size, is_draco))
         /\ last' = Call(op, args, "none", Len(pool) + 1)
    ELSE /\ UNCHANGED <<bufs, opts, pool>>
         /\ last' = Call(op, args, res.err, 0)

Built == Cardinality({ i \in 1..Len(pool) : pool[i].origin.op = "Mesh" })
BuiltVerts == SumLen([ i \in 1..Len(pool) |->
                IF pool[i].origin.op = "Mesh" THEN Val(i) ELSE NoMesh ], Len(pool))
RECURSIVE SumFaces(_)
SumFaces(i) ==
  IF i = 0 THEN 0
  ELSE SumFaces(i - 1) + (IF pool[i].origin.op = "Mesh" THEN Len(Val(i).faces.rows) ELSE 0)

----------------------------------------------------------------------------
(* Inputs.                                                                 *)

\* Two points: P has a coordinate that is a multiple of 2 and none of 3, Q one
\* that is a multiple of 3 and none of 2; P sorts before Q.
P == << F32(1), F32(2), F32(1) >>
Q == << F32(3), F32(1), F32(1) >>
Points == {P, Q}

FaceRows == { <<0, 1, 1>>, <<1, 0, 0>>, <<2, 3, 3>> }

ChunkSizes == {2, 3}

\* draco_grid_size's default
DracoGridSize == 21

SeqsUpTo(S, n) == UNION { [1..k -> S] : k \in 0..n }

\* The rest of the constructor's arguments: nothing, or normals with a segment
\* id, an encoding type and an options object.
Plain == [normals |-> NoNormals, segid |-> NoSegid, encoding_type |-> NoType,
          encoding_options |-> NoOptions]
Tagged == [normals |-> Arr2(<< << F32(0), F32(0), F32(1) >> >>), segid |-> 7,
           encoding_type |-> One("draco"), encoding_options |-> <<14>>]
Profiles == {Plain, Tagged}

\* For equality: the metadata of Tagged without normals, and other normals
\* without metadata.
Labelled == [normals |-> NoNormals, segid |-> 7, encoding_type |-> One("precomputed"),
             encoding_options |-> <<14>>]
Lit == [normals |-> Arr2(<< << F32(0), F32(1), F32(0) >> >>), segid |-> NoSegid,
        encoding_type |-> NoType, encoding_options |-> NoOptions]
EqProfiles == {Plain, Tagged, Labelled, Lit}

\* The words a caller writes into a buffer.
WriteWords == {0, 1}

----------------------------------------------------------------------------
(* Actions.                                                                *)

\* Mesh(vertices, faces, normals, segid, encoding_type, encoding_options) by a
\* caller, from nested lists.
Construct(vertices, faces, prof) ==
  /\ Returns(Ok(Mesh(AsArray(vertices), AsArray(faces), prof.normals, prof.segid,
                     prof.encoding_type, prof.encoding_options)),
             0, "Mesh", << >>, 0, FALSE)
  /\ UNCHANGED <<wire, writes>>

\* pool[i].clone()
DoClone(i) ==
  /\ Returns(Clone(Val(i)), 0, "clone", <<i>>, 0, FALSE)
  /\ UNCHANGED <<wire, writes>>

\* Mesh.concatenate(pool[args[1]], ..., pool[args[k]])
DoConcatenate(args) ==
  /\ Returns(Concatenate([ k \in 1..Len(args) |-> Val(args[k]) ]), 0,
             "concatenate", args, 0, FALSE)
  /\ UNCHANGED <<wire, writes>>

\* pool[i].consolidate()
DoConsolidate(i) ==
  /\ Returns(Consolidate(Val(i)), 0, "consolidate", <<i>>, 0, FALSE)
  /\ UNCHANGED <<wire, writes>>

\* The draco alignment test is modelled on integer coordinates.
IntegerCoords(m) ==
  \A i \in 1..Len(m.vertices.rows) : \A j \in 1..3 : F32IsInt(m.vertices.rows[i][j])

\* pool[i].deduplicate_chunk_boundaries(chunk_size, is_draco): the result is
\* handed self.encoding_options itself.
DoDeduplicate(i, chunk_size, is_draco) ==
  /\ is_draco => IntegerCoords(Val(i))
  /\ Returns(DeduplicateChunkBoundaries(Val(i), chunk_size, is_draco, DracoGridSize),
             pool[i].encoding_options, "deduplicate_chunk_boundaries", <<i>>,
             chunk_size, is_draco)
  /\ UNCHANGED <<wire, writes>>

\* pool[i] == pool[j]
DoEquals(i, j) ==
  /\ last' = [Call("eq", <<i, j>>, "none", 0) EXCEPT !.eq = MeshEq(Val(i), Val(j))]
  /\ UNCHANGED <<bufs, opts, pool, wire, writes>>

\* pool[i].to_precomputed()
DoToPrecomputed(i) ==
  /\ wire' = ToPrecomputed(Val(i))
  /\ last' = Call("to_precomputed", <<i>>, "none", 0)
  /\ UNCHANGED <<bufs, opts, pool, writes>>

\* Mesh.from_precomputed(wire)
DoFromPrecomputed ==
  /\ LET res == FromPrecomputed(wire)
     IN  IF res.err = "none"
           THEN /\ NewMesh(res.mesh, 0, Origin("from_precomputed", << >>, 0, FALSE))
                /\ last' = Call("from_precomputed", << >>, "none", Len(pool) + 1)
           ELSE /\ UNCHANGED <<bufs, opts, pool>>
                /\ last' = [Call("from_precomputed", << >>, res.err, 0)
                              EXCEPT !.min_bytes = res.min_bytes,
                                     !.actual_bytes = res.actual_bytes]
  /\ UNCHANGED <<wire, writes>>

NoneDecoded == \A i \in 1..Len(pool) : pool[i].origin.op # "from_precomputed"

\* A caller's buffer: the first n bytes of an encoded mesh.
Truncate(n) ==
  /\ NoneDecoded
  /\ n < Len(wire)
  /\ wire' = SubSeq(wire, 1, n)
  /\ last' = Call("buffer", << >>, "none", 0)
  /\ UNCHANGED <<bufs, opts, pool, writes>>

\* A caller's buffer: an encoded mesh declaring another vertex count.
SetHeader(num_vertices) ==
  /\ NoneDecoded
  /\ Len(wire) >= 4
  /\ BytesWord(wire, 0) # num_vertices
  /\ wire' = WordBytes(num_vertices) \o SubSeq(wire, 5, Len(wire))
  /\ last' = Call("buffer", << >>, "none", 0)
  /\ UNCHANGED <<bufs, opts, pool, writes>>

\* A caller writes into a buffer of pool[i] in place: the first word of its
\* first row becomes w.
WriteBuffer(i, field, w) ==
  /\ writes < MaxWrites
  /\ LET a == IF field = "vertices" THEN pool[i].vertices
              ELSE IF field = "faces" THEN pool[i].faces ELSE pool[i].normals
     IN  /\ bufs[a].rows # << >>
         /\ bufs[a].rows[1][1] # w
         /\ bufs' = [bufs EXCEPT ![a].rows[1][1] = w]
  /\ writes' = writes + 1
  /\ last' = Call("write", <<i>>, "none", 0)
  /\ UNCHANGED <<opts, pool, wire>>

\* A caller changes the encoding_options object of pool[i] in place.
WriteOptions(i, v) ==
  /\ writes < MaxWrites
  /\ pool[i].encoding_options # 0
  /\ opts[pool[i].encoding_options] # <<v>>
  /\ opts' = [opts EXCEPT ![pool[i].encoding_options] = <<v>>]
  /\ writes' = writes + 1
  /\ last' = Call("write", <<i>>, "none", 0)
  /\ UNCHANGED <<bufs, pool, wire>>

----------------------------------------------------------------------------
(* Specifications.                                                         *)

Init ==
  /\ bufs = << >>
  /\ opts = << >>
  /\ pool = << >>
  /\ wire = << >>
  /\ last = Call("init", << >>, "none", 0)
  /\ writes = 0

Slots == 1..Len(pool)
ArgLists == UNION { [1..k -> Slots] : k \in 1..MaxK }

\* The constructor may be handed v and f: the run's budget of rows allows it.
Affordable(v, f, maxv, maxf) ==
  /\ BuiltVerts + Len(v) <= maxv
  /\ SumFaces(Len(pool)) + Len(f) <= maxf

\* Topology of one mesh: a mesh is built, then consolidated and deduplicated.
Next ==
  \/ /\ pool = << >>
     /\ \E v \in SeqsUpTo(Points, MaxVerts), f \in SeqsUpTo(FaceRows, MaxFaces), prof \in Profiles :
          Construct(v, f, prof)
  \/ /\ Len(pool) < MaxPool
     /\ \E i \in Slots : DoConsolidate(i)
  \/ /\ Len(pool) < MaxPool
     /\ \E i \in Slots, c \in ChunkSizes, d \in BOOLEAN : DoDeduplicate(i, c, d)

Spec == Init /\ [][Next]_vars

\* Concatenation: two meshes are built and concatenated, results included.
NextConcat ==
  \/ /\ Built < 2
     /\ Len(pool) < 2
     /\ \E v \in SeqsUpTo(Points, PairVerts), f \in SeqsUpTo(FaceRows, MaxFaces), prof \in Profiles :
          Affordable(v, f, PairVerts, MaxFaces) /\ Construct(v, f, prof)
  \/ /\ Len(pool) < ConcatPool
     /\ \E args \in ArgLists : DoConcatenate(args)

SpecConcat == Init /\ [][NextConcat]_vars

\* The codec: a mesh is built and encoded, the buffer is cut or given another
\* header, and a buffer is decoded.
NextCodec ==
  \/ /\ pool = << >>
     /\ \E v \in SeqsUpTo(Points, CodecVerts), f \in SeqsUpTo(FaceRows, MaxFaces), prof \in Profiles :
          Construct(v, f, prof)
  \/ \E i \in Slots : DoToPrecomputed(i)
  \/ \E n \in 0..Len(wire) : Truncate(n)
  \/ \E k \in 0..MaxHeader : SetHeader(k)
  \/ /\ Len(pool) < 2
     /\ DoFromPrecomputed

SpecCodec == Init /\ [][NextCodec]_vars

\* Equality: two meshes are built and compared.
NextEq ==
  \/ /\ Len(pool) < 2
     /\ \E v \in SeqsUpTo(Points, EqVerts), f \in SeqsUpTo(FaceRows, MaxFaces), prof \in EqProfiles :
          Affordable(v, f, EqVerts, MaxFaces) /\ Construct(v, f, prof)
  \/ \E i, j \in Slots : DoEquals(i, j)

SpecEq == Init /\ [][NextEq]_vars

\* Sharing: a mesh is built, the topology operations run on what there is, and
\* a caller writes into a mesh's buffer or options object.
NextAlias ==
  \/ /\ pool = << >>
     /\ \E v \in SeqsUpTo(Points, AliasVerts), f \in SeqsUpTo(FaceRows, 1), prof \in Profiles :
          Construct(v, f, prof)
  \/ /\ Len(pool) < MaxPool
     /\ \E i \in Slots : DoClone(i)
  \/ /\ Len(pool) < MaxPool
     /\ \E args \in ArgLists : DoConcatenate(args)
  \/ /\ Len(pool) < MaxPool
     /\ \E i \in Slots : DoConsolidate(i)
  \/ /\ Len(pool) < MaxPool
     /\ \E i \in Slots, c \in ChunkSizes, d \in BOOLEAN : DoDeduplicate(i, c, d)
  \/ \E i \in Slots, field \in {"vertices", "faces", "normals"}, w \in WriteWords :
       WriteBuffer(i, field, w)
  \/ \E i \in Slots, v \in {11} : WriteOptions(i, v)

SpecAlias == Init /\ [][NextAlias]_vars

\* Validity: a mesh whose faces index its vertices is built, and the topology
\* operations run on what there is.
NextValid ==
  \/ /\ pool = << >>
     /\ \E v \in SeqsUpTo(Points, ValidVerts), f \in SeqsUpTo(FaceRows, MaxFaces), prof \in Profiles :
          /\ ValidIds(Mesh(AsArray(v), AsArray(f), prof.normals, prof.segid,
                           prof.encoding_type, prof.encoding_options))
          /\ Construct(v, f, prof)
  \/ /\ Len(pool) < ValidPool
     /\ \E i \in Slots : DoClone(i)
  \/ /\ Len(pool) < ValidPool
     /\ \E args \in ArgLists : DoConcatenate(args)
  \/ /\ Len(pool) < ValidPool
     /\ \E i \in Slots : DoConsolidate(i)
  \/ /\ Len(pool) < ValidPool
     /\ \E i \in Slots, c \in ChunkSizes, d \in BOOLEAN : DoDeduplicate(i, c, d)

SpecValid == Init /\ [][NextValid]_vars

----------------------------------------------------------------------------
(* Claims about consolidate and deduplicate_chunk_boundaries (Spec).       *)

NoDuplicates(rows) == \A a, b \in 1..Len(rows) : rows[a] = rows[b] => a = b

\* The mesh a call was made on, and the pool entries a call made.
Input(j) == Val(pool[j].origin.args[1])
MadeBy(op) == { j \in Slots : pool[j].origin.op = op }

\* In the spec's domain: the faces index the vertices.
InDomain(m) == ValidIds(m)

\* C5: consolidate is idempotent: consolidating the result of a consolidate
\* succeeds and gives a mesh equal to it under Mesh equality, with identical
\* vertex rows and identical face rows in the same order.
C5_ConsolidateIdempotent ==
  /\ \A j \in MadeBy("consolidate") :
       pool[pool[j].origin.args[1]].origin.op = "consolidate" =>
         /\ MeshEq(Val(j), Input(j))
         /\ Val(j).vertices.rows = Input(j).vertices.rows
         /\ Val(j).faces.rows = Input(j).faces.rows
  /\ (last.op = "consolidate" /\ pool[last.args[1]].origin.op = "consolidate")
       => last.err = "none"

\* a second consolidate of a mesh whose first consolidate removed a vertex and a face
C5_Witness ==
  \E j \in MadeBy("consolidate") :
    LET i == pool[j].origin.args[1]
    IN  /\ pool[i].origin.op = "consolidate"
        /\ Len(Val(i).vertices.rows) < Len(Input(i).vertices.rows)
        /\ Len(Val(i).faces.rows) < Len(Input(i).faces.rows)
        /\ Len(Val(j).faces.rows) > 0

\* C6: consolidate of a non-empty mesh with valid face ids has no two equal
\* vertex rows and no two equal face rows, the same set of vertex coordinates,
\* the same set of coordinate triangles and no normals; consolidate of an empty
\* mesh has zero vertices, zero faces and zero normals.
C6_ConsolidateResult ==
  /\ \A j \in MadeBy("consolidate") :
       LET m == Input(j)
           r == Val(j)
       IN  IF Empty(m)
             THEN Shape0(r.vertices) = 0 /\ Shape0(r.faces) = 0 /\ Shape0(r.normals) = 0
             ELSE /\ NoDuplicates(r.vertices.rows)
                  /\ NoDuplicates(r.faces.rows)
                  /\ Range(r.vertices.rows) = Range(m.vertices.rows)
                  /\ ValidIds(r)
                  /\ Range(Triangles(r)) = Range(Triangles(m))
                  /\ Shape0(r.normals) = 0
  /\ (last.op = "consolidate" /\ (Empty(Val(last.args[1])) \/ InDomain(Val(last.args[1]))))
       => last.err = "none"

\* a consolidate that removed a duplicate vertex and a duplicate face of a mesh with normals
C6_Witness ==
  \E j \in MadeBy("consolidate") :
    /\ Len(Val(j).vertices.rows) < Len(Input(j).vertices.rows)
    /\ Len(Val(j).faces.rows) < Len(Input(j).faces.rows)
    /\ Len(Val(j).faces.rows) > 0
    /\ Shape0(Input(j).normals) > 0

\* A row has a coordinate that is an exact multiple of c.
OnBoundary(row, c) == \E k \in 1..3 : F32IsInt(row[k]) /\ F32ToInt(row[k]) % c = 0

\* The input vertex ids of two face corners are merged by the call that made j.
Collapsed(j, a, b) ==
  LET m == Input(j)
      before == Flatten(m.faces.rows)
      after == Flatten(Val(j).faces.rows)
      va == m.vertices.rows[before[a] + 1]
      vb == m.vertices.rows[before[b] + 1]
  IN  after[a] = after[b]
        <=> \/ before[a] = before[b]
            \/ /\ va = vb
               /\ CountOf(m.vertices.rows, va) = 2
               /\ OnBoundary(va, pool[j].origin.chunk_size)

\* Two faces, every vertex referenced, and exactly one pair of equal rows on a
\* chunk boundary, one of the pair in each face.
TwoTiles(m, c) ==
  /\ Len(m.faces.rows) = 2
  /\ \A v \in 1..MeshLen(m) : \E i \in 1..2, k \in 1..3 : m.faces.rows[i][k] = v - 1
  /\ ValidIds(m)
  /\ Cardinality({ pr \in (1..MeshLen(m)) \X (1..MeshLen(m)) :
                     /\ pr[1] < pr[2]
                     /\ m.vertices.rows[pr[1]] = m.vertices.rows[pr[2]]
                     /\ OnBoundary(m.vertices.rows[pr[1]], c) }) = 1
  /\ \E a, b \in 1..MeshLen(m) :
       /\ a # b
       /\ m.vertices.rows[a] = m.vertices.rows[b]
       /\ OnBoundary(m.vertices.rows[a], c)
       /\ \E k \in 1..3 : m.faces.rows[1][k] = a - 1
       /\ \E k \in 1..3 : m.faces.rows[2][k] = b - 1
       /\ \A k \in 1..3 : m.faces.rows[1][k] # b - 1 /\ m.faces.rows[2][k] # a - 1

\* C7: with the standard alignment test, two referenced vertex rows of the
\* input are one output vertex exactly when they hold the same coordinates,
\* those coordinates occur exactly twice in the input's vertex array and one of
\* them is an exact multiple of chunk_size; every output vertex is referenced;
\* and two tiles sharing one boundary vertex give one vertex fewer, with both
\* faces referencing the merged vertex.
C7_MergeExactlyDoubledBoundary ==
  \A j \in MadeBy("deduplicate_chunk_boundaries") :
    ~pool[j].origin.is_draco =>
      LET m == Input(j)
          r == Val(j)
          c == pool[j].origin.chunk_size
          n == 3 * Len(m.faces.rows)
      IN  /\ Len(r.faces.rows) = Len(m.faces.rows)
          /\ \A a, b \in 1..n : Collapsed(j, a, b)
          /\ Range(Flatten(r.faces.rows)) = 0..(MeshLen(r) - 1)
          /\ TwoTiles(m, c) =>
               /\ MeshLen(r) = MeshLen(m) - 1
               /\ \E id \in 0..(MeshLen(r) - 1) :
                    /\ id \in Range(r.faces.rows[1])
                    /\ id \in Range(r.faces.rows[2])
                    /\ OnBoundary(r.vertices.rows[id + 1], c)

\* two tiles sharing one boundary vertex, deduplicated with the standard test
C7_Witness ==
  \E j \in MadeBy("deduplicate_chunk_boundaries") :
    /\ ~pool[j].origin.is_draco
    /\ TwoTiles(Input(j), pool[j].origin.chunk_size)
    /\ MeshLen(Input(j)) = 4

\* The relation C10 states between a mesh and its deduplicated mesh.
FacesUndisturbed(m, r) ==
  /\ Len(r.faces.rows) = Len(m.faces.rows)
  /\ ValidIds(r)
  /\ Triangles(r) = Triangles(m)
  /\ r.segid = m.segid
  /\ r.encoding_type = m.encoding_type
  /\ r.encoding_options = m.encoding_options
  /\ Shape0(r.normals) = 0

\* C10: for every mesh with valid face ids and every chunk_size,
\* deduplicate_chunk_boundaries returns a mesh with the same faces in the same
\* order, each corner at the coordinates it had, with the input's segid,
\* encoding_type and encoding_options and with no normals.
C10_DedupKeepsFaces ==
  /\ \A j \in MadeBy("deduplicate_chunk_boundaries") : FacesUndisturbed(Input(j), Val(j))
  /\ (last.op = "deduplicate_chunk_boundaries" /\ InDomain(Val(last.args[1])))
       => last.err = "none"

\* What holds of deduplicate_chunk_boundaries: the relation, of every mesh it returns.
DedupKeepsFacesWhenItReturns ==
  \A j \in MadeBy("deduplicate_chunk_boundaries") : FacesUndisturbed(Input(j), Val(j))

----------------------------------------------------------------------------
(* Claims about concatenate (SpecConcat).                                  *)

Inputs(j) == [ k \in 1..Len(pool[j].origin.args) |-> Val(pool[j].origin.args[k]) ]

RECURSIVE SumFaceRows(_, _)
SumFaceRows(meshes, i) ==
  IF i = 0 THEN 0 ELSE SumFaceRows(meshes, i - 1) + Len(meshes[i].faces.rows)

\* The relation C4 states between meshes ms (with valid face ids) and their
\* concatenation r.
Concatenated(ms, r) ==
  /\ MeshLen(r) = SumLen(ms, Len(ms))
  /\ Len(r.faces.rows) = SumFaceRows(ms, Len(ms))
  /\ \A i \in 1..Len(ms) :
       LET voff == SumLen(ms, i - 1)
           foff == SumFaceRows(ms, i - 1)
       IN  /\ \A v \in 1..MeshLen(ms[i]) :
                r.vertices.rows[voff + v] = ms[i].vertices.rows[v]
           /\ \A f \in 1..Len(ms[i].faces.rows) : \A k \in 1..3 :
                LET id == r.faces.rows[foff + f][k]
                IN  /\ id = ms[i].faces.rows[f][k] + voff
                    /\ id >= voff
                    /\ id < voff + MeshLen(ms[i])
                    /\ r.vertices.rows[id + 1]
                         = ms[i].vertices.rows[ms[i].faces.rows[f][k] + 1]

\* C4: for any k >= 1 meshes with valid face ids, concatenate returns a mesh
\* whose vertex and face counts are the sums of the inputs', whose vertices
\* are the inputs' in order and whose faces are the inputs' with every id
\* raised by the vertex count of the meshes before.
C4_ConcatenateOffsets ==
  /\ \A j \in MadeBy("concatenate") :
       (\A k \in 1..Len(Inputs(j)) : InDomain(Inputs(j)[k])) => Concatenated(Inputs(j), Val(j))
  /\ (last.op = "concatenate" /\ \A k \in 1..Len(last.args) : InDomain(Val(last.args[k])))
       => last.err = "none"

\* What holds of concatenate: the relation, of every mesh it returns.
ConcatenatedWhenItReturns ==
  \A j \in MadeBy("concatenate") :
    (\A k \in 1..Len(Inputs(j)) : InDomain(Inputs(j)[k])) => Concatenated(Inputs(j), Val(j))

\* concatenate raises only on arrays of different ndim or on a list-valued encoding_type
ConcatenateFailures ==
  (last.op = "concatenate" /\ last.err # "none") =>
     \/ /\ last.err = "TypeError"
        /\ \E k \in 1..Len(last.args) : Val(last.args[k]).encoding_type[1] = "many"
     \/ /\ last.err = "ValueError"
        /\ \E a, b \in 1..Len(last.args) :
             \/ Val(last.args[a]).vertices.ndim # Val(last.args[b]).vertices.ndim
             \/ Val(last.args[a]).faces.ndim # Val(last.args[b]).faces.ndim

----------------------------------------------------------------------------
(* Claims about the precomputed codec (SpecCodec).                         *)

Decoding == last.op = "from_precomputed"

\* C1: decoding the encoding of a non-empty mesh with valid face ids gives a
\* mesh with the same vertex rows and the same face rows in the same order,
\* no normals and encoding_type 'precomputed'.
C1_PrecomputedRoundTrip ==
  Decoding =>
    \A i \in Slots :
      (i # last.out /\ wire = ToPrecomputed(Val(i)) /\ ~Empty(Val(i)) /\ ValidIds(Val(i))) =>
        /\ last.err = "none"
        /\ Val(last.out).vertices = Val(i).vertices
        /\ Val(last.out).faces = Val(i).faces
        /\ Size(Val(last.out).normals) = 0
        /\ Val(last.out).encoding_type = One("precomputed")

\* the encoding of a tagged mesh of two vertices and two faces, with normals, decoded
C1_Witness ==
  /\ Decoding
  /\ last.out = 2
  /\ wire = ToPrecomputed(Val(1))
  /\ ValidIds(Val(1))
  /\ MeshLen(Val(1)) = 2
  /\ Len(Val(1).faces.rows) = 2
  /\ Val(1).vertices.rows[1] # Val(1).vertices.rows[2]
  /\ Size(Val(1).normals) > 0
  /\ Val(1).encoding_type = One("draco")

\* The vertex count a buffer of at least 4 bytes declares.
Declared == IF Len(wire) >= 4 THEN BytesWord(wire, 0) ELSE 0

\* C2: from_precomputed returns a fully formed mesh or fails with
\* MeshDecodeError and returns nothing; it fails with MeshDecodeError when the
\* buffer is shorter than 4 + 12*Nv bytes and when the bytes after the vertex
\* block are no rows of three uint32.
C2_DecodeOrDecodeError ==
  Decoding =>
    /\ last.err \in {"none", "MeshDecodeError"}
    /\ last.err # "none" => last.out = 0
    /\ last.err = "none" =>
         /\ last.out = Len(pool)
         /\ Val(last.out).vertices.ndim = 2
         /\ Val(last.out).faces.ndim = 2
         /\ MeshLen(Val(last.out)) = Declared
    /\ (Len(wire) >= 4 /\ Len(wire) < 4 + 12 * Declared) => last.err = "MeshDecodeError"
    /\ (Len(wire) >= 4 + 12 * Declared /\ (Len(wire) - 4 - 12 * Declared) % 12 # 0)
         => last.err = "MeshDecodeError"

\* C3: when from_precomputed rejects a buffer as too small for its declared
\* vertex count Nv, the error names 4 + 12*Nv as the minimum size and the
\* buffer's length as the actual size.
C3_TooSmallReportsSizes ==
  (Decoding /\ last.err = "MeshDecodeError" /\ Len(wire) >= 4 /\ Len(wire) < 4 + 12 * Declared) =>
    /\ last.min_bytes = 4 + 12 * Declared
    /\ last.actual_bytes = Len(wire)

\* What holds of the error: it names 4 + 4*Nv as the minimum and the buffer's
\* length as the actual size.
TooSmallReportsWhatTheCodeWrites ==
  (Decoding /\ last.err = "MeshDecodeError") =>
    /\ last.min_bytes = 4 + 4 * Declared
    /\ last.actual_bytes = Len(wire)

\* What holds of from_precomputed: which error each buffer gets.
DecodeOutcomes ==
  Decoding =>
    /\ last.err = "struct.error" <=> Len(wire) < 4
    /\ last.err = "MeshDecodeError" <=>
         /\ Len(wire) >= 4
         /\ \/ Len(wire) < 4 + 12 * Declared
            \/ (Len(wire) - 4) % 4 # 0
    /\ last.err = "ValueError" <=>
         /\ Len(wire) >= 4 + 12 * Declared
         /\ (Len(wire) - 4) % 4 = 0
         /\ (Len(wire) - 4 - 12 * Declared) % 12 # 0

----------------------------------------------------------------------------
(* Claims about equality (SpecEq).                                         *)

\* Two arrays are elementwise equal: the same shape and the same elements.
SameArray(x, y) == x.ndim = y.ndim /\ x.rows = y.rows

\* What C8 says equality is.
SameGeometry(a, b) ==
  /\ (Size(a.normals) = 0) = (Size(b.normals) = 0)
  /\ SameArray(a.vertices, b.vertices)
  /\ SameArray(a.faces, b.faces)
  /\ Size(a.normals) # 0 => SameArray(a.normals, b.normals)

WithMeta(m, prof) ==
  Mesh(m.vertices, m.faces, m.normals, prof.segid, prof.encoding_type, prof.encoding_options)

\* C8: mesh equality is reflexive and symmetric, holds exactly when both
\* meshes have or both lack normals and their vertex, face and (when present)
\* normal arrays are elementwise equal, and does not depend on segid,
\* encoding_type or encoding_options.
C8_EqualityIsGeometry ==
  last.op = "eq" =>
    LET a == Val(last.args[1])
        b == Val(last.args[2])
    IN  /\ last.args[1] = last.args[2] => last.eq
        /\ last.eq = MeshEq(b, a)
        /\ \A p, q \in EqProfiles : MeshEq(WithMeta(a, p), WithMeta(b, q)) = last.eq
        /\ last.eq = SameGeometry(a, b)

\* What holds of equality: the rest of C8, and the claim's description of it for
\* arrays of the same shape.
EqualityOnSameShapes ==
  last.op = "eq" =>
    LET a == Val(last.args[1])
        b == Val(last.args[2])
    IN  /\ last.args[1] = last.args[2] => last.eq
        /\ last.eq = MeshEq(b, a)
        /\ \A p, q \in EqProfiles : MeshEq(WithMeta(a, p), WithMeta(b, q)) = last.eq
        /\ SameGeometry(a, b) => last.eq
        /\ ( /\ Shape0(a.vertices) = Shape0(b.vertices) /\ a.vertices.ndim = b.vertices.ndim
             /\ Shape0(a.faces) = Shape0(b.faces) /\ a.faces.ndim = b.faces.ndim
             /\ Shape0(a.normals) = Shape0(b.normals) )
             => last.eq = SameGeometry(a, b)

----------------------------------------------------------------------------
(* Claims about sharing (SpecAlias).                                       *)

TopologyOps == {"clone", "concatenate", "consolidate", "deduplicate_chunk_boundaries"}

\* C9: clone, concatenate, consolidate and deduplicate_chunk_boundaries leave
\* every mesh there is as it was, and a later write into a buffer or into the
\* encoding_options of one mesh is never visible through another mesh.
C9_NoMutationNoSharing ==
  [][ /\ last'.op \in TopologyOps =>
           \A i \in Slots : pool'[i] = pool[i] /\ ValIn(bufs', opts', pool'[i]) = Val(i)
      /\ last'.op = "write" =>
           \A i \in Slots : i # last'.args[1] => ValIn(bufs', opts', pool'[i]) = Val(i)
    ]_vars

\* What holds: the operations leave every mesh as it was, no two meshes share a
\* buffer, and only deduplicate_chunk_boundaries hands its result the options
\* object of its input.
SharingIsOfDedupOptions ==
  \A i, j \in Slots : i # j =>
    /\ {pool[i].vertices, pool[i].faces, pool[i].normals}
         \cap {pool[j].vertices, pool[j].faces, pool[j].normals} = {}
    /\ (pool[i].encoding_options # 0 /\ pool[i].encoding_options = pool[j].encoding_options /\ i < j)
         => \E k \in Slots : k > i /\ pool[k].origin.op = "deduplicate_chunk_boundaries"

----------------------------------------------------------------------------
(* Claims about face-index validity (SpecValid).                           *)

\* C11: starting from meshes whose face ids are all below their vertex count,
\* every mesh that clone, concatenate, consolidate and
\* deduplicate_chunk_boundaries return, in any sequence, has every face id
\* below its own vertex count.
C11_FaceIdsStayValid ==
  \A i \in Slots : ValidIds(Val(i))

\* a mesh with a face concatenated behind a non-empty mesh, so that its ids are
\* raised, then consolidated to fewer vertices, then deduplicated
C11_Witness ==
  \E j \in MadeBy("deduplicate_chunk_boundaries") :
    LET c == pool[j].origin.args[1]
    IN  /\ pool[c].origin.op = "consolidate"
        /\ LET k == pool[c].origin.args[1]
           IN  /\ pool[k].origin.op = "concatenate"
               /\ Len(pool[k].origin.args) = 2
               /\ MeshLen(Val(pool[k].origin.args[1])) > 0
               /\ Len(Val(pool[k].origin.args[2]).faces.rows) > 0
               /\ MeshLen(Val(c)) < MeshLen(Val(k))
               /\ Len(Val(j).faces.rows) > 0

====
